---- MODULE Spec2Model ----
(***************************************************************************)
(* Adaptive radix tree nodes of the index                                  *)
(* (src/lib/storage/index/adaptive_radix_tree/adaptive_radix_tree_nodes.cpp)*)
(*                                                                         *)
(* The state is the heap of constructed nodes (Leaf, Node4, Node16,        *)
(* Node48, Node256 with their arrays), the input they were built from and  *)
(* the last query with its outcome.  A node is addressed by the key prefix *)
(* that leads to it; the root is the empty prefix.  Arrays are 0-based     *)
(* functions, as in the source.                                            *)
(*                                                                         *)
(* Two specifications share the node operators:                            *)
(*   Spec      a bulk-loaded trie over two-byte keys, queried at the root  *)
(*   SpecNode  one internal node constructed directly from a vector of     *)
(*             (partial key, child) pairs over leaves, as a unit test does *)
(***************************************************************************)
EXTENDS Integers, Sequences, FiniteSets, TLC

VARIABLES keys,     \* the distinct keys the index was loaded with (a set)
          children, \* the (byte, child) vector handed to a constructor
          run,      \* rows per distinct value in the backing sequence
          heap,     \* node address -> node object
          pc,       \* "unbuilt" | "ready" | "answered" | "dead"
          query,    \* the last call made on a node
          result,   \* its outcome
          trace,    \* the chain of calls it made
          readers   \* reader thread -> the call it is in, member call by member call

vars == <<keys, children, run, heap, pc, query, result, trace, readers>>

(***************************** bounds **************************************)
MaxKeys == 3
MaxRun == 2
\* reader threads that query the published tree
MaxReaders == 2
\* a constructor is handed every order of up to this many pairs
MaxPermuted == 3

\* bytes of the query keys
QueryBytes == {0, 3, 7, 255}
\* partial keys of the directly constructed nodes, and their query bytes
NodeBytes == {0, 2, 5, 9, 255}
NodeQueryBytes == {0, 1, 2, 5, 7, 9, 10, 250, 255}

(************************** program constants ******************************)
INVALID_INDEX == 255
Node4Size == 4
Node16Size == 16
Node48Size == 48
ByteArraySize == 256
\* width of the encoded key (external key encoder)
KeyLen == 2

NULL == <<-1>>
Root == <<>>
Shapes == {"Node4", "Node16", "Node48", "Node256"}
BoundFns == {"lower_bound", "upper_bound"}

Capacity(shape) ==
  CASE shape = "Node4" -> Node4Size
    [] shape = "Node16" -> Node16Size
    [] shape = "Node48" -> Node48Size
    [] OTHER -> ByteArraySize

(***************************** constructors ********************************)
\* std::sort with the comparator lhs.first < rhs.first
SortChildren(v) == SortSeq(v, LAMBDA lhs, rhs: lhs[1] < rhs[1])

\* the last position (0-based) of the vector that holds partial key b, or -1
LastWith(v, b) ==
  LET at == {i \in 1..Len(v) : v[i][1] = b}
  IN IF at = {} THEN -1 ELSE (CHOOSE i \in at : \A j \in at : j <= i) - 1

Leaf(lower, upper) == [type |-> "Leaf", _begin |-> lower, _end |-> upper]

\* mutant: the pairs are stored in the order they come in, std::sort is missing
Node4Unsorted(v) ==
  [type |-> "Node4",
   _partial_keys |-> [i \in 0..(Node4Size - 1) |->
                        IF i < Len(v) THEN v[i + 1][1] ELSE INVALID_INDEX],
   _children |-> [i \in 0..(Node4Size - 1) |->
                        IF i < Len(v) THEN v[i + 1][2] ELSE NULL]]

Node4(v) ==
  LET sorted == SortChildren(v)
  IN [type |-> "Node4",
      _partial_keys |-> [i \in 0..(Node4Size - 1) |->
                           IF i < Len(sorted) THEN sorted[i + 1][1] ELSE INVALID_INDEX],
      _children |-> [i \in 0..(Node4Size - 1) |->
                           IF i < Len(sorted) THEN sorted[i + 1][2] ELSE NULL]]

Node16(v) ==
  LET sorted == SortChildren(v)
  IN [type |-> "Node16",
      _partial_keys |-> [i \in 0..(Node16Size - 1) |->
                           IF i < Len(sorted) THEN sorted[i + 1][1] ELSE INVALID_INDEX],
      _children |-> [i \in 0..(Node16Size - 1) |->
                           IF i < Len(sorted) THEN sorted[i + 1][2] ELSE NULL]]

\* mutant: _index_to_child is filled with 0 instead of INVALID_INDEX
Node48ZeroFilled(v) ==
  [type |-> "Node48",
   _index_to_child |-> [b \in 0..(ByteArraySize - 1) |->
                          IF LastWith(v, b) >= 0 THEN LastWith(v, b) ELSE 0],
   _children |-> [i \in 0..(Node48Size - 1) |->
                          IF i < Len(v) THEN v[i + 1][2] ELSE NULL]]

\* mutant: _index_to_child holds the rank of the partial key, as if the pairs
\* came in ascending order
Node48Ranked(v) ==
  [type |-> "Node48",
   _index_to_child |-> [b \in 0..(ByteArraySize - 1) |->
                          IF LastWith(v, b) >= 0
                          THEN Cardinality({i \in 1..Len(v) : v[i][1] < b})
                          ELSE INVALID_INDEX],
   _children |-> [i \in 0..(Node48Size - 1) |->
                          IF i < Len(v) THEN v[i + 1][2] ELSE NULL]]

Node48(v) ==
  [type |-> "Node48",
   _index_to_child |-> [b \in 0..(ByteArraySize - 1) |->
                          IF LastWith(v, b) >= 0 THEN LastWith(v, b) ELSE INVALID_INDEX],
   _children |-> [i \in 0..(Node48Size - 1) |->
                          IF i < Len(v) THEN v[i + 1][2] ELSE NULL]]

Node256(v) ==
  [type |-> "Node256",
   _children |-> [b \in 0..(ByteArraySize - 1) |->
                          IF LastWith(v, b) >= 0 THEN v[LastWith(v, b) + 1][2] ELSE NULL]]

Construct(shape, v) ==
  CASE shape = "Node4" -> Node4(v)
    [] shape = "Node16" -> Node16(v)
    [] shape = "Node48" -> Node48(v)
    [] OTHER -> Node256(v)

(************************* outcome of one call *****************************)
\* what a member function does: it tail-calls another member function,
\* returns an iterator, throws std::logic_error, or leaves defined behaviour
Call(node, fn, depth) ==
  [kind |-> "call", node |-> node, fn |-> fn, depth |-> depth, pos |-> 0, cause |-> "none"]
Return(pos) ==
  [kind |-> "return", node |-> NULL, fn |-> "none", depth |-> 0, pos |-> pos, cause |-> "none"]
Throw ==
  [kind |-> "throw", node |-> NULL, fn |-> "none", depth |-> 0, pos |-> 0, cause |-> "none"]
Undefined(cause) ==
  [kind |-> "undefined", node |-> NULL, fn |-> "none", depth |-> 0, pos |-> 0, cause |-> cause]

\* child->fn(...): a member call through a shared_ptr, which may be empty
CallChild(child, fn, depth) ==
  IF child = NULL THEN Undefined("null_dereference") ELSE Call(child, fn, depth)

\* array[i]->fn(...) on a std::array of `size` slots
CallSlot(array, size, i, fn, depth) ==
  IF i < 0 \/ i >= size THEN Undefined("index_out_of_range")
  ELSE CallChild(array[i], fn, depth)

\* std::lower_bound(first, first + count, value) on a std::array: the number of
\* the first element not less than value, found by bisection
RECURSIVE StdLowerBound(_, _, _, _)
StdLowerBound(array, first, count, value) ==
  IF count > 0
  THEN LET step == count \div 2
           it == first + step
       IN IF array[it] < value
          THEN StdLowerBound(array, it + 1, count - (step + 1), value)
          ELSE StdLowerBound(array, first, step, value)
  ELSE first

(********************************* Leaf ************************************)
\* mutant: upper_bound returns _begin, as lower_bound does
LeafStepLower(n, fn) ==
  CASE fn = "lower_bound" -> Return(n._begin)
    [] fn = "upper_bound" -> Return(n._begin)
    [] fn = "begin" -> Return(n._begin)
    [] OTHER -> Return(n._end)

LeafStep(n, fn) ==
  CASE fn = "lower_bound" -> Return(n._begin)
    [] fn = "upper_bound" -> Return(n._end)
    [] fn = "begin" -> Return(n._begin)
    [] OTHER -> Return(n._end)

(********************************* Node4 ***********************************)
\* mutant: case2 is missing, every larger partial key ends in end()
RECURSIVE Node4ScanWithoutCase2(_, _, _, _, _, _)
Node4ScanWithoutCase2(self, n, partial_key, depth, fn, partial_key_id) ==
  IF partial_key_id < Node4Size
  THEN IF n._partial_keys[partial_key_id] < partial_key
       THEN Node4ScanWithoutCase2(self, n, partial_key, depth, fn, partial_key_id + 1)
       ELSE IF n._partial_keys[partial_key_id] = partial_key
       THEN CallChild(n._children[partial_key_id], fn, depth + 1)
       ELSE Call(self, "end", depth)
  ELSE Call(self, "end", depth)

\* mutant: case2 goes on with the bound function in the next larger child
RECURSIVE Node4ScanDescends(_, _, _, _, _, _)
Node4ScanDescends(self, n, partial_key, depth, fn, partial_key_id) ==
  IF partial_key_id < Node4Size
  THEN IF n._partial_keys[partial_key_id] < partial_key
       THEN Node4ScanDescends(self, n, partial_key, depth, fn, partial_key_id + 1)
       ELSE IF n._partial_keys[partial_key_id] = partial_key
       THEN CallChild(n._children[partial_key_id], fn, depth + 1)
       ELSE IF n._children[partial_key_id] = NULL
       THEN Call(self, "end", depth)
       ELSE CallChild(n._children[partial_key_id], fn, depth + 1)
  ELSE Call(self, "end", depth)

RECURSIVE Node4Scan(_, _, _, _, _, _)
Node4Scan(self, n, partial_key, depth, fn, partial_key_id) ==
  IF partial_key_id < Node4Size
  THEN IF n._partial_keys[partial_key_id] < partial_key
       THEN Node4Scan(self, n, partial_key, depth, fn, partial_key_id + 1)
       ELSE IF n._partial_keys[partial_key_id] = partial_key
       THEN CallChild(n._children[partial_key_id], fn, depth + 1)     \* case0
       ELSE IF n._children[partial_key_id] = NULL
       THEN Call(self, "end", depth)                                  \* case1b
       ELSE CallChild(n._children[partial_key_id], "begin", depth)    \* case2
  ELSE Call(self, "end", depth)                                       \* case1a

Node4DelegateToChild(self, n, key, depth, fn) ==
  IF depth >= Len(key) THEN Undefined("key_out_of_range")
  ELSE Node4Scan(self, n, key[depth + 1], depth, fn, 0)

Node4Begin(n, depth) == CallChild(n._children[0], "begin", depth)

RECURSIVE Node4EndScan(_, _, _)
Node4EndScan(n, depth, i) ==
  IF i > 0
  THEN IF n._children[i - 1] # NULL
       THEN CallChild(n._children[i - 1], "end", depth)
       ELSE Node4EndScan(n, depth, i - 1)
  ELSE Throw

Node4End(n, depth) == Node4EndScan(n, depth, Node4Size)

(********************************* Node16 **********************************)
\* mutant: case0 passes depth instead of ++depth
Node16DelegateSameDepth(self, n, key, depth, fn) ==
  IF depth >= Len(key) THEN Undefined("key_out_of_range")
  ELSE LET partial_key == key[depth + 1]
           partial_key_pos == StdLowerBound(n._partial_keys, 0, Node16Size, partial_key)
       IN IF partial_key_pos >= Node16Size
          THEN Undefined("index_out_of_range")
          ELSE IF n._partial_keys[partial_key_pos] = partial_key
          THEN CallSlot(n._children, Node16Size, partial_key_pos, fn, depth)
          ELSE IF n._children[partial_key_pos] # NULL
          THEN CallChild(n._children[partial_key_pos], "begin", depth)
          ELSE Call(self, "end", depth)

Node16DelegateToChild(self, n, key, depth, fn) ==
  IF depth >= Len(key) THEN Undefined("key_out_of_range")
  ELSE LET partial_key == key[depth + 1]
           partial_key_pos == StdLowerBound(n._partial_keys, 0, Node16Size, partial_key)
       IN IF partial_key_pos >= Node16Size
          THEN Undefined("index_out_of_range")        \* *partial_key_iterator at end()
          ELSE IF n._partial_keys[partial_key_pos] = partial_key
          THEN CallSlot(n._children, Node16Size, partial_key_pos, fn, depth + 1)   \* case0
          ELSE IF n._children[partial_key_pos] # NULL
          THEN CallChild(n._children[partial_key_pos], "begin", depth)             \* case2
          ELSE Call(self, "end", depth)                                            \* case1b

Node16Begin(n, depth) == CallChild(n._children[0], "begin", depth)

Node16End(n, depth) ==
  LET partial_key_pos == StdLowerBound(n._partial_keys, 0, Node16Size, INVALID_INDEX)
  IN IF partial_key_pos >= Node16Size
     THEN Undefined("index_out_of_range")             \* _children[16]
     ELSE IF n._children[partial_key_pos] = NULL
     THEN CallSlot(n._children, Node16Size, partial_key_pos - 1, "end", depth)
     ELSE CallChild(n._children[partial_key_pos], "end", depth)

(***************************** counted loops *******************************)
RECURSIVE FirstIn(_, _, _)
\* the least element of S within lo..hi (S meets lo..hi)
FirstIn(S, lo, hi) ==
  IF lo = hi THEN lo
  ELSE LET mid == (lo + hi) \div 2
       IN IF \E x \in lo..mid : x \in S THEN FirstIn(S, lo, mid) ELSE FirstIn(S, mid + 1, hi)

\* for (i = first; i \in cond; i = (i + step) % modulus) { if (i \in test) return ...; }
\* The counter has 8 or 16 bits (modulus 2^8 or 2^16); cond holds the counter
\* values that pass the loop condition, test those that pass the test of the
\* body.  The loop is left in the first round whose counter fails cond ("exit")
\* or passes test ("found"); a counter of 8 bits takes its first value again
\* after 256 rounds, and the loop then never ends.
ForLoop(first, step, modulus, cond, test) ==
  LET at(t) == (first + step * t) % modulus
      stops == {t \in 0..(ByteArraySize - 1) : at(t) \notin cond \/ at(t) \in test}
  IN IF \A t \in 0..(ByteArraySize - 1) : t \notin stops
     THEN [how |-> "endless", i |-> 0]
     ELSE LET t == FirstIn(stops, 0, ByteArraySize - 1)
          IN [how |-> IF at(t) \in cond THEN "found" ELSE "exit", i |-> at(t)]

\* the values of a byte, and the wrap of a uint8_t and of a uint16_t counter
Byte == 0..255
UInt8 == 256
UInt16 == 65536

(********************************* Node48 **********************************)
\* for (uint16_t i = partial_key + 1; i < 256u; ++i)
Node48Scan(self, n, depth, partial_key) ==
  LET loop == ForLoop(partial_key + 1, 1, UInt16, 0..255,
                      {i \in Byte : n._index_to_child[i] # INVALID_INDEX})
  IN IF loop.how = "found"
     THEN CallSlot(n._children, Node48Size, n._index_to_child[loop.i], "begin", depth)  \* case2
     ELSE Call(self, "end", depth)                                                      \* case1

\* mutant: case0 indexes _children with the partial key itself
Node48DelegateDirect(self, n, key, depth, fn) ==
  IF depth >= Len(key) THEN Undefined("key_out_of_range")
  ELSE LET partial_key == key[depth + 1]
       IN IF n._index_to_child[partial_key] # INVALID_INDEX
          THEN CallSlot(n._children, Node48Size, partial_key, fn, depth + 1)
          ELSE Node48Scan(self, n, depth, partial_key)

Node48DelegateToChild(self, n, key, depth, fn) ==
  IF depth >= Len(key) THEN Undefined("key_out_of_range")
  ELSE LET partial_key == key[depth + 1]
       IN IF n._index_to_child[partial_key] # INVALID_INDEX
          THEN CallSlot(n._children, Node48Size, n._index_to_child[partial_key],
                        fn, depth + 1)                                               \* case0
          ELSE Node48Scan(self, n, depth, partial_key)

\* mutant: takes the first slot of the compact array, the pair inserted first
Node48BeginFirstSlot(n, depth) == CallSlot(n._children, Node48Size, 0, "begin", depth)

\* for (uint8_t i = 0; i < _index_to_child.size(); ++i): i is 8 bits wide and
\* the size is 256, so ++i wraps from 255 to 0
Node48Begin(n, depth) ==
  LET loop == ForLoop(0, 1, UInt8, 0..(ByteArraySize - 1),
                      {i \in Byte : n._index_to_child[i] # INVALID_INDEX})
  IN CASE loop.how = "found" ->
            CallSlot(n._children, Node48Size, n._index_to_child[loop.i], "begin", depth)
       [] loop.how = "exit" -> Throw
       [] OTHER -> Undefined("endless_loop")

\* for (uint8_t i = _index_to_child.size() - 1; i > 0; --i)
Node48End(n, depth) ==
  LET loop == ForLoop(ByteArraySize - 1, -1, UInt8, 1..255,
                      {i \in Byte : n._index_to_child[i] # INVALID_INDEX})
  IN CASE loop.how = "found" ->
            CallSlot(n._children, Node48Size, n._index_to_child[loop.i], "begin", depth)
       [] loop.how = "exit" -> Throw
       [] OTHER -> Undefined("endless_loop")

(********************************* Node256 *********************************)
\* for (uint16_t i = partial_key + 1; i < 256u; ++i)
\* mutant: the scan stops before slot 255 (i < 255u)
Node256ScanShort(self, n, depth, partial_key) ==
  LET loop == ForLoop(partial_key + 1, 1, UInt16, 0..254,
                      {i \in Byte : n._children[i] # NULL})
  IN IF loop.how = "found"
     THEN CallChild(n._children[loop.i], "begin", depth)
     ELSE Call(self, "end", depth)

Node256Scan(self, n, depth, partial_key) ==
  LET loop == ForLoop(partial_key + 1, 1, UInt16, 0..255,
                      {i \in Byte : n._children[i] # NULL})
  IN IF loop.how = "found"
     THEN CallChild(n._children[loop.i], "begin", depth)              \* case2
     ELSE Call(self, "end", depth)                                    \* case1

\* mutant: case0 passes depth + 2 to the child
Node256DelegateSkips(self, n, key, depth, fn) ==
  IF depth >= Len(key) THEN Undefined("key_out_of_range")
  ELSE LET partial_key == key[depth + 1]
       IN IF n._children[partial_key] # NULL
          THEN CallChild(n._children[partial_key], fn, depth + 2)
          ELSE Node256Scan(self, n, depth, partial_key)

Node256DelegateToChild(self, n, key, depth, fn) ==
  IF depth >= Len(key) THEN Undefined("key_out_of_range")
  ELSE LET partial_key == key[depth + 1]
       IN IF n._children[partial_key] # NULL
          THEN CallChild(n._children[partial_key], fn, depth + 1)     \* case0
          ELSE Node256Scan(self, n, depth, partial_key)

\* mutant: the counter advances by two from slot 1, so it passes over the even slots
Node256BeginOddSlots(n, depth) ==
  LET loop == ForLoop(1, 2, UInt8, 0..(ByteArraySize - 1),
                      {i \in Byte : n._children[i] # NULL})
  IN CASE loop.how = "found" -> CallChild(n._children[loop.i], "begin", depth)
       [] loop.how = "exit" -> Throw
       [] OTHER -> Undefined("endless_loop")

\* for (uint8_t i = 0u; i < _children.size(); ++i): wraps like Node48::begin
Node256Begin(n, depth) ==
  LET loop == ForLoop(0, 1, UInt8, 0..(ByteArraySize - 1),
                      {i \in Byte : n._children[i] # NULL})
  IN CASE loop.how = "found" -> CallChild(n._children[loop.i], "begin", depth)
       [] loop.how = "exit" -> Throw
       [] OTHER -> Undefined("endless_loop")

\* for (uint8_t i = _children.size() - 1; i >= 0; --i): i >= 0 holds of every
\* uint8_t, and --i wraps from 0 to 255
Node256End(n, depth) ==
  LET loop == ForLoop(ByteArraySize - 1, -1, UInt8, 0..255,
                      {i \in Byte : n._children[i] # NULL})
  IN CASE loop.how = "found" -> CallChild(n._children[loop.i], "begin", depth)
       [] loop.how = "exit" -> Throw
       [] OTHER -> Undefined("endless_loop")

(***************************** virtual dispatch ****************************)
\* one member function call on the node at address f.node
Step(h, key, f) ==
  LET n == h[f.node]
      t == n.type
  IN CASE t = "Leaf" -> LeafStep(n, f.fn)
       [] t = "Node4" ->
            IF f.fn \in BoundFns THEN Node4DelegateToChild(f.node, n, key, f.depth, f.fn)
            ELSE IF f.fn = "begin" THEN Node4Begin(n, f.depth) ELSE Node4End(n, f.depth)
       [] t = "Node16" ->
            IF f.fn \in BoundFns THEN Node16DelegateToChild(f.node, n, key, f.depth, f.fn)
            ELSE IF f.fn = "begin" THEN Node16Begin(n, f.depth) ELSE Node16End(n, f.depth)
       [] t = "Node48" ->
            IF f.fn \in BoundFns THEN Node48DelegateToChild(f.node, n, key, f.depth, f.fn)
            ELSE IF f.fn = "begin" THEN Node48Begin(n, f.depth) ELSE Node48End(n, f.depth)
       [] OTHER ->
            IF f.fn \in BoundFns THEN Node256DelegateToChild(f.node, n, key, f.depth, f.fn)
            ELSE IF f.fn = "begin" THEN Node256Begin(n, f.depth) ELSE Node256End(n, f.depth)

Frame(node, fn, depth) == [node |-> node, fn |-> fn, depth |-> depth]

\* the whole call: the chain of member calls and how the last one ends
RECURSIVE Run(_, _, _, _)
Run(h, key, f, calls) ==
  LET s == Step(h, key, f)
  IN IF s.kind = "call"
     THEN Run(h, key, Frame(s.node, s.fn, s.depth), Append(calls, f))
     ELSE [calls |-> Append(calls, f), last |-> s]

Exec(h, key, node, fn, depth) == Run(h, key, Frame(node, fn, depth), <<>>)

(***************************** bulk load ***********************************)
\* byte-wise lexicographic order of two keys of the same length
LexLess(a, b) ==
  \E i \in 1..Len(a) : a[i] < b[i] /\ \A j \in 1..(i - 1) : a[j] = b[j]

IsPrefix(p, k) == Len(p) <= Len(k) /\ SubSeq(k, 1, Len(p)) = p

\* the rows of value k in the sorted backing sequence: r rows per value
RangeBegin(ks, r, k) == r * Cardinality({j \in ks : LexLess(j, k)})
RangeEnd(ks, r, k) == RangeBegin(ks, r, k) + r

Prefixes(ks) == {SubSeq(k, 1, n) : k \in ks, n \in 0..KeyLen}

NextBytes(ks, p) == {k[Len(p) + 1] : k \in {j \in ks : Len(j) > Len(p) /\ IsPrefix(p, j)}}

RECURSIVE Ascending(_)
Ascending(S) ==
  IF S = {} THEN <<>>
  ELSE LET m == CHOOSE x \in S : \A y \in S : x <= y
       IN <<m>> \o Ascending(S \ {m})

Reverse(v) == [i \in 1..Len(v) |-> v[Len(v) + 1 - i]]

\* the (partial key, child) vector of the node at prefix p
ChildVector(p, bytes) == [i \in 1..Len(bytes) |-> <<bytes[i], Append(p, bytes[i])>>]

\* leaves first, then a node of the chosen shape over each group of children
BulkInsert(ks, r, shapeAt) ==
  [p \in Prefixes(ks) |->
     IF p \in ks
     THEN Leaf(RangeBegin(ks, r, p), RangeEnd(ks, r, p))
     ELSE Construct(shapeAt[Len(p) + 1], ChildVector(p, Ascending(NextBytes(ks, p))))]

\* the values a column may hold, as encoded keys
TreeKeys == {<<0, 0>>, <<0, 255>>, <<7, 7>>, <<255, 0>>, <<255, 255>>}
TreeQueryKeys == {<<a, b>> : a \in QueryBytes, b \in QueryBytes}
NodeQueryKeys == {<<b>> : b \in NodeQueryBytes}
DenseSets == {s..(s + Node16Size - 1) : s \in {0, 240}}
\* 48 and 49 partial keys: a full Node48, and one pair more
FullSets == {0..(Node48Size - 1), 0..Node48Size}
NodeChildSets == (SUBSET NodeBytes) \cup DenseSets \cup FullSets

\* the orders in which a driver may hand the pairs with these partial keys to a
\* constructor: every order of a small collection, ascending and descending
\* of a larger one
Orders(bytes) ==
  IF Cardinality(bytes) <= MaxPermuted
  THEN {ChildVector(<<>>, p) :
          p \in {q \in [1..Cardinality(bytes) -> bytes] :
                   \A i, j \in 1..Cardinality(bytes) : q[i] = q[j] => i = j}}
  ELSE {ChildVector(<<>>, Ascending(bytes)), Reverse(ChildVector(<<>>, Ascending(bytes)))}

\* keys and depths a Leaf is called with directly
LeafQueryKeys == {<<0>>, <<9>>}
LeafDepths == {0, 7}

(***************************** outcomes ************************************)
NoQuery == [node |-> NULL, fn |-> "none", key |-> <<>>, depth |-> 0]
NoResult == [kind |-> "none", pos |-> 0, ub |-> "none"]

Iterator(pos) == [kind |-> "iterator", pos |-> pos, ub |-> "none"]
LogicError == [kind |-> "logic_error", pos |-> 0, ub |-> "none"]

Positions == 0..(run * Cardinality(keys))

\* what a build can do once behaviour is undefined: fault, spin, throw, or
\* carry on and hand back any iterator
UndefinedResults(cause) ==
  {[kind |-> k, pos |-> 0, ub |-> cause] : k \in {"crash", "hang", "logic_error"}}
  \cup {[kind |-> "iterator", pos |-> p, ub |-> cause] : p \in Positions}

Results(last) ==
  CASE last.kind = "return" -> {Iterator(last.pos)}
    [] last.kind = "throw" -> {LogicError}
    [] OTHER -> UndefinedResults(last.cause)

\* a reader thread that is not in a call
Readers == 1..MaxReaders
Idle == [status |-> "idle", fn |-> "none", key |-> <<>>,
         frame |-> [node |-> NULL, fn |-> "none", depth |-> 0],
         calls |-> <<>>, result |-> NoResult]

(***************************** actions *************************************)
Init ==
  /\ keys \in {ks \in SUBSET TreeKeys : Cardinality(ks) \in 1..MaxKeys}
  /\ run \in 1..MaxRun
  /\ children = <<>>
  /\ heap = [p \in {} |-> NULL]
  /\ pc = "unbuilt"
  /\ query = NoQuery
  /\ result = NoResult
  /\ trace = <<>>
  /\ readers = [r \in Readers |-> Idle]

\* the index constructor: bulk-inserts the sorted values
BulkLoad ==
  /\ pc = "unbuilt"
  /\ \E shapeAt \in [1..KeyLen -> Shapes] : heap' = BulkInsert(keys, run, shapeAt)
  /\ pc' = "ready"
  /\ UNCHANGED <<keys, children, run, query, result, trace, readers>>

InitNode ==
  /\ \E bytes \in NodeChildSets :
       /\ keys = {<<b>> : b \in bytes}
       /\ children \in Orders(bytes)
  /\ run \in 1..MaxRun
  /\ heap = [p \in keys |-> Leaf(RangeBegin(keys, run, p), RangeEnd(keys, run, p))]
  /\ pc = "unbuilt"
  /\ query = NoQuery
  /\ result = NoResult
  /\ trace = <<>>
  /\ readers = [r \in Readers |-> Idle]

\* the loop of a constructor over the vector v,
\*   for (uint8_t i = 0u; i < children.size(); ++i) { ..._[i] = ...; }
\* (uint16_t in Node256, whose stores are indexed by the partial key): it is
\* left at its end ("exit"), or it stores at an i beyond the last slot of the
\* arrays ("found")
ConstructorLoop(shape, v) ==
  ForLoop(0, 1, IF shape = "Node256" THEN UInt16 ELSE UInt8,
          0..(Len(v) - 1),
          IF shape = "Node256" THEN {} ELSE {i \in Byte : i >= Capacity(shape)})

\* new NodeN(children) on a vector of pairs over the leaves
ConstructNode ==
  /\ pc = "unbuilt"
  /\ \E shape \in Shapes :
       IF ConstructorLoop(shape, children).how = "exit"
       THEN /\ heap' = [p \in DOMAIN heap \cup {Root} |->
                          IF p = Root THEN Construct(shape, children) ELSE heap[p]]
            /\ pc' = "ready"
            /\ UNCHANGED <<query, result, trace>>
       ELSE /\ query' = [node |-> Root, fn |-> shape, key |-> <<>>, depth |-> 0]
            /\ result' \in UndefinedResults("index_out_of_range")
            /\ pc' = "dead"
            /\ UNCHANGED <<heap, trace>>
  /\ UNCHANGED <<keys, children, run, readers>>

\* node->fn(key, depth), run to its end
DoQuery(node, fn, key, depth) ==
  /\ pc = "ready"
  /\ node \in DOMAIN heap
  /\ LET e == Exec(heap, key, node, fn, depth)
     IN /\ result' \in Results(e.last)
        /\ trace' = e.calls
  /\ query' = [node |-> node, fn |-> fn, key |-> key, depth |-> depth]
  /\ pc' = IF result'.kind \in {"crash", "hang"} THEN "dead" ELSE "answered"
  /\ UNCHANGED <<keys, children, run, heap, readers>>

\* the caller is done with the returned iterator (or has caught the exception)
Release ==
  /\ pc = "answered"
  /\ pc' = "ready"
  /\ query' = NoQuery
  /\ result' = NoResult
  /\ trace' = <<>>
  /\ UNCHANGED <<keys, children, run, heap, readers>>

LowerBound(key) == DoQuery(Root, "lower_bound", key, 0)
UpperBound(key) == DoQuery(Root, "upper_bound", key, 0)
Begin(node) == DoQuery(node, "begin", <<>>, Len(node))
End(node) == DoQuery(node, "end", <<>>, Len(node))

Next ==
  \/ BulkLoad
  \/ \E key \in TreeQueryKeys : LowerBound(key)
  \/ \E key \in TreeQueryKeys : UpperBound(key)
  \/ \E node \in DOMAIN heap : Begin(node)
  \/ \E node \in DOMAIN heap : End(node)
  \/ Release

Spec == Init /\ [][Next]_vars

\* leaf->lower_bound(key, depth) or leaf->upper_bound(key, depth) on a Leaf
LeafQuery(leaf, fn, key, depth) ==
  /\ leaf # Root
  /\ heap[leaf].type = "Leaf"
  /\ DoQuery(leaf, fn, key, depth)

NextNode ==
  \/ ConstructNode
  \/ \E leaf \in DOMAIN heap, fn \in BoundFns, key \in LeafQueryKeys, depth \in LeafDepths :
        LeafQuery(leaf, fn, key, depth)
  \/ \E key \in NodeQueryKeys : LowerBound(key)
  \/ \E key \in NodeQueryKeys : UpperBound(key)
  \/ \E node \in DOMAIN heap : Begin(node)
  \/ \E node \in DOMAIN heap : End(node)
  \/ Release

SpecNode == InitNode /\ [][NextNode]_vars

(***************************** reader threads ******************************)
\* several threads query the published tree; a thread advances by one member
\* call at a time, so the calls of different threads interleave

\* mutant: Leaf::lower_bound and Leaf::begin hand out _begin and move it on to _end
LeafAdvances(n, fn) ==
  IF n.type = "Leaf" /\ fn \in {"lower_bound", "begin"}
  THEN [n EXCEPT !._begin = n._end] ELSE n

\* mutant: Leaf::upper_bound and Leaf::end hand out _end and rewind it to _begin
LeafRewinds(n, fn) ==
  IF n.type = "Leaf" /\ fn \in {"upper_bound", "end"}
  THEN [n EXCEPT !._end = n._begin] ELSE n

\* the node after one of its member functions has run: lower_bound,
\* upper_bound, begin, end and _delegate_to_child are const and write no field
NodeAfter(n, fn) == n

\* the values of the column and the calls of the reader threads: a stored
\* key, a key above the keys of its subtree, begin() and end()
ReaderTrees == {{<<7, 7>>, <<255, 0>>}}
ReaderQueries == {[fn |-> "lower_bound", key |-> <<7, 7>>],
                  [fn |-> "upper_bound", key |-> <<7, 255>>],
                  [fn |-> "begin", key |-> <<>>],
                  [fn |-> "end", key |-> <<>>]}

InitReaders ==
  /\ keys \in ReaderTrees
  /\ run = 1
  /\ children = <<>>
  /\ heap = [p \in {} |-> NULL]
  /\ pc = "unbuilt"
  /\ query = NoQuery
  /\ result = NoResult
  /\ trace = <<>>
  /\ readers = [r \in Readers |-> Idle]

\* thread r calls root->fn(key, 0)
ReaderCall(r, fn, key) ==
  /\ pc = "ready"
  /\ readers[r].status = "idle"
  /\ readers' = [readers EXCEPT ![r] = [status |-> "running", fn |-> fn, key |-> key,
                                        frame |-> Frame(Root, fn, 0),
                                        calls |-> <<>>, result |-> NoResult]]
  /\ UNCHANGED <<keys, children, run, heap, pc, query, result, trace>>

\* thread r runs the member function it is in, up to its tail call or its end
ReaderStep(r) ==
  /\ pc = "ready"
  /\ readers[r].status = "running"
  /\ LET f == readers[r].frame
         s == Step(heap, readers[r].key, f)
     IN /\ heap' = [heap EXCEPT ![f.node] = NodeAfter(heap[f.node], f.fn)]
        /\ IF s.kind = "call"
           THEN /\ readers' = [readers EXCEPT ![r].frame = Frame(s.node, s.fn, s.depth),
                                              ![r].calls = Append(@, f)]
                /\ pc' = pc
           ELSE \E res \in Results(s) :
                  /\ readers' = [readers EXCEPT ![r].status = "done",
                                                ![r].calls = Append(@, f),
                                                ![r].result = res]
                  /\ pc' = IF res.kind \in {"crash", "hang"} THEN "dead" ELSE pc
  /\ UNCHANGED <<keys, children, run, query, result, trace>>

\* thread r is done with the iterator (or has caught the exception)
ReaderReturn(r) ==
  /\ pc = "ready"
  /\ readers[r].status = "done"
  /\ readers' = [readers EXCEPT ![r] = Idle]
  /\ UNCHANGED <<keys, children, run, heap, pc, query, result, trace>>

NextReaders ==
  \/ BulkLoad
  \/ \E r \in Readers, q \in ReaderQueries : ReaderCall(r, q.fn, q.key)
  \/ \E r \in Readers : ReaderStep(r)
  \/ \E r \in Readers : ReaderReturn(r)

SpecReaders == InitReaders /\ [][NextReaders]_vars

(***************************** expected values *****************************)
Answered == pc \in {"answered", "dead"} /\ query.node # NULL /\ query.fn \notin Shapes
BoundQuery == Answered /\ query.node = Root /\ query.fn \in BoundFns
Stored == query.key \in keys

\* the stored keys above the query key, and the least of them
Above(q) == {k \in keys : LexLess(q, k)}
Least(ks) == CHOOSE k \in ks : \A j \in ks : j = k \/ LexLess(k, j)
Greatest(ks) == CHOOSE k \in ks : \A j \in ks : j = k \/ LexLess(j, k)
EndOfAll == run * Cardinality(keys)
Under(node) == {k \in keys : IsPrefix(node, k)}

\* the outcomes of node->fn(key, depth) on the current heap
Outcomes(node, fn, key, depth) == Results(Exec(heap, key, node, fn, depth).last)

\* C1: lower_bound(k, 0) on the root returns the begin and upper_bound(k, 0)
\* the end of the range stored for k, for every stored key k
C1_StoredKeyBounds ==
  (BoundQuery /\ Stored) =>
     result = Iterator(IF query.fn = "lower_bound"
                       THEN RangeBegin(keys, run, query.key)
                       ELSE RangeEnd(keys, run, query.key))

C1_Witness ==
  /\ BoundQuery /\ Stored
  /\ query.fn = "upper_bound"
  /\ Cardinality(keys) = 3
  /\ heap[Root].type = "Node48"
  /\ heap[<<query.key[1]>>].type = "Node16"
  /\ result = Iterator(RangeEnd(keys, run, query.key))
  /\ result.pos < EndOfAll

\* C2: for a key that is not stored, lower_bound and upper_bound on the root
\* both return the begin of the range of the next stored key above it, or
\* the end of the last range (the end() of the tree) when no stored key is above
C2_BetweenAndAbove ==
  (BoundQuery /\ ~Stored /\ \E k \in keys : LexLess(k, query.key)) =>
     result = Iterator(IF Above(query.key) = {}
                       THEN EndOfAll
                       ELSE RangeBegin(keys, run, Least(Above(query.key))))

\* C3: end() of an internal node returns the end() of its rightmost child, so
\* it is the end of the range of the greatest key below the node
C3_EndIsRightmostEnd ==
  (Answered /\ query.fn = "end" /\ heap[query.node].type # "Leaf") =>
     result = Iterator(RangeEnd(keys, run, Greatest(Under(query.node))))

\* C5: every node a bound query passes through has
\* begin() <= the returned iterator <= end()
C5_Monotonicity ==
  (Answered /\ query.fn \in BoundFns) =>
     \A i \in 1..Len(trace) :
        trace[i].fn \in BoundFns =>
           LET b == Exec(heap, <<>>, trace[i].node, "begin", trace[i].depth).last
               e == Exec(heap, <<>>, trace[i].node, "end", trace[i].depth).last
           IN /\ b.kind = "return" /\ e.kind = "return"
              /\ result.kind = "iterator" /\ result.ub = "none"
              /\ b.pos <= result.pos /\ result.pos <= e.pos

\* C8: on an exact match the node calls the same bound function on the child
\* for key[d] with depth d + 1, and returns what that call returns
C8_ExactMatchRecurses ==
  (Answered /\ query.fn \in BoundFns) =>
     \A i \in 1..Len(trace) :
        LET f == trace[i]
            child == IF f.depth < Len(query.key)
                     THEN Append(f.node, query.key[f.depth + 1]) ELSE NULL
        IN (f.fn \in BoundFns /\ heap[f.node].type # "Leaf" /\ child \in DOMAIN heap) =>
              /\ i < Len(trace)
              /\ trace[i + 1] = Frame(child, f.fn, f.depth + 1)
              /\ LET e == Exec(heap, query.key, child, f.fn, f.depth + 1)
                 IN /\ e.calls = SubSeq(trace, i + 1, Len(trace))
                    /\ result \in Results(e.last)

C8_Witness ==
  /\ BoundQuery /\ Stored
  /\ Len(trace) = 3
  /\ heap[Root].type = "Node256"
  /\ heap[trace[2].node].type = "Node4"
  /\ trace[2].depth = 1 /\ trace[3].depth = 2
  /\ query.key[1] # query.key[2]
  /\ result.kind = "iterator"

\* C10: for a key below the least stored key, lower_bound and upper_bound on
\* the root both return the begin of the first range, which is root.begin()
C10_BelowMinimum ==
  (BoundQuery /\ \A k \in keys : LexLess(query.key, k)) =>
     /\ result = Iterator(RangeBegin(keys, run, Least(keys)))
     /\ Outcomes(Root, "begin", <<>>, 0) = {result}

C10_Witness ==
  /\ BoundQuery /\ \A k \in keys : LexLess(query.key, k)
  /\ query.key[1] = Least(keys)[1]
  /\ Cardinality(keys) >= 2
  /\ heap[Root].type = "Node16"
  /\ heap[<<query.key[1]>>].type = "Node48"
  /\ result = Iterator(0)

(********************* one node, constructed directly **********************)
Bytes == {children[i][1] : i \in 1..Len(children)}
NodeQuery == Answered /\ query.node = Root /\ query.fn \in BoundFns
NoChildAt(b) == b \notin Bytes
LeastAbove(b) == CHOOSE c \in Bytes : c > b /\ \A d \in Bytes : d > b => c <= d

\* the node the constructor of `shape` builds from the same vector, with the leaves
HeapOf(shape) ==
  [p \in keys \cup {Root} |-> IF p = Root THEN Construct(shape, children) ELSE heap[p]]

\* C4: nodes of the four shapes built from the same 1 to 4 pairs answer
\* lower_bound, upper_bound, begin and end alike
C4_ShapeEquivalence ==
  (Answered /\ query.node = Root /\ Len(children) \in 1..Node4Size) =>
     \A shape \in Shapes :
        Results(Exec(HeapOf(shape), query.key, Root, query.fn, 0).last) = {result}

\* C6: with no child for the query byte and none above it, lower_bound and
\* upper_bound return what this node's end() returns
C6_NoneAboveIsEnd ==
  (NodeQuery /\ Len(children) >= 1 /\ \A c \in Bytes : c < query.key[1]) =>
     /\ result.kind = "iterator" /\ result.ub = "none"
     /\ Outcomes(Root, "end", <<>>, 0) = {result}

\* C7: with no child for the query byte b but one above it, lower_bound and
\* upper_bound both return begin() of the child with the least byte above b
C7_NextLargerBegin ==
  (NodeQuery /\ NoChildAt(query.key[1]) /\ \E c \in Bytes : c > query.key[1]) =>
     LET next == <<LeastAbove(query.key[1])>>
     IN /\ result = Iterator(heap[next]._begin)
        /\ trace = <<Frame(Root, query.fn, 0), Frame(next, "begin", 0)>>
        /\ Outcomes(next, "begin", <<>>, 0) = {result}

C7_Witness ==
  /\ NodeQuery /\ query.fn = "upper_bound"
  /\ Bytes = {2, 5, 9}
  /\ query.key = <<7>>
  /\ heap[Root].type = "Node48"
  /\ children[1][1] = 9
  /\ result = Iterator(2 * run)

\* C9: begin() and end() of an internal node without children end in the
\* logic_error, for each of the four shapes
C9_EmptyNodeThrows ==
  (Answered /\ query.node = Root /\ query.fn \in {"begin", "end"} /\ Len(children) = 0) =>
     result = LogicError

(***************************** begin() ***********************************)
LeastByte == CHOOSE c \in Bytes : \A d \in Bytes : c <= d
GreatestByte == CHOOSE c \in Bytes : \A d \in Bytes : d <= c

\* C11: begin() of an internal node with at least one child makes one call,
\* begin() of the child with the least partial key, and returns what it
\* returns, also when that partial key is 0 or 255
C11_BeginIsLeftmost ==
  (Answered /\ query.node = Root /\ query.fn = "begin" /\ Len(children) >= 1) =>
     /\ trace = <<Frame(Root, "begin", 0), Frame(<<LeastByte>>, "begin", 0)>>
     /\ result = Iterator(heap[<<LeastByte>>]._begin)

C11_Witness ==
  /\ Answered /\ query.node = Root /\ query.fn = "begin"
  /\ heap[Root].type = "Node48"
  /\ Bytes = {0, 9, 255}
  /\ children[1][1] = 255
  /\ trace = <<Frame(Root, "begin", 0), Frame(<<0>>, "begin", 0)>>
  /\ result = Iterator(0)

(***************************** construction ******************************)
\* the heap with the node the constructor of `shape` builds from the vector v
HeapFrom(shape, v) ==
  [p \in keys \cup {Root} |-> IF p = Root THEN Construct(shape, v) ELSE heap[p]]

\* C12: a node built from the pairs in any order answers like the node built
\* from the same pairs in ascending order: every lower_bound, upper_bound,
\* begin and end makes the same chain of member calls and ends in the same
\* step, so it has the same result
C12_OrderIndependent ==
  (Answered /\ query.node = Root /\ Len(children) >= 1) =>
     LET sorted == ChildVector(<<>>, Ascending(Bytes))
         e == Exec(HeapFrom(heap[Root].type, sorted), query.key, Root, query.fn, 0)
     IN /\ e.calls = trace
        /\ e.last = Exec(heap, query.key, Root, query.fn, 0).last
        /\ result \in Results(e.last)

C12_Witness ==
  /\ Answered /\ query.node = Root /\ query.fn = "lower_bound"
  /\ heap[Root].type = "Node48"
  /\ children = ChildVector(<<>>, <<9, 2, 5>>)
  /\ query.key = <<5>>
  /\ result = Iterator(run)

(***************************** reader threads ******************************)
Done(r) == readers[r].status = "done"

\* root->fn(key, 0) run alone on the tree as it is now
Alone(r) == Exec(heap, readers[r].key, Root, readers[r].fn, 0)

ReadersUndisturbed ==
  \A r \in Readers :
     Done(r) => /\ readers[r].calls = Alone(r).calls
                /\ readers[r].result \in Results(Alone(r).last)

\* C13: no query changes a field of a node, and a query interleaved with the
\* queries of other readers makes the calls and has the result it has alone
C13_ReadOnlyQueries ==
  [](ReadersUndisturbed) /\ [][pc = "ready" => heap' = heap]_vars

C13_Witness ==
  /\ Done(1) /\ readers[1].fn = "upper_bound" /\ readers[1].key = <<7, 255>>
  /\ heap[Root].type = "Node16" /\ heap[<<7>>].type = "Node48"
  /\ Len(readers[1].calls) = 4
  /\ readers[1].result = Iterator(0)
  /\ readers[2].status = "running" /\ readers[2].fn = "lower_bound"
  /\ Len(readers[2].calls) = 2

\* the same outcome: equal iterators, the logic_error twice, or defined
\* behaviour left for the same cause twice
SameOutcome(a, b) == a = b \/ (a.ub # "none" /\ a.ub = b.ub)

\* C14: two calls of the same function with the same arguments on the tree
\* make the same member calls and have the same outcome, whatever calls
\* ran before or between them
C14_Idempotence ==
  \A r1, r2 \in Readers :
     (Done(r1) /\ Done(r2) /\ readers[r1].fn = readers[r2].fn
                           /\ readers[r1].key = readers[r2].key) =>
        /\ readers[r1].calls = readers[r2].calls
        /\ SameOutcome(readers[r1].result, readers[r2].result)

C14_Witness ==
  /\ Done(1) /\ Done(2)
  /\ readers[1].fn = "lower_bound" /\ readers[2].fn = "lower_bound"
  /\ readers[1].key = <<7, 7>> /\ readers[2].key = <<7, 7>>
  /\ heap[Root].type = "Node256" /\ heap[<<7>>].type = "Node4"
  /\ Len(readers[2].calls) = 3
  /\ readers[1].result = Iterator(0) /\ readers[2].result = Iterator(0)

(********************************* Leaf ************************************)
\* C15: a call that ends on a Leaf returns the Leaf's _begin for lower_bound
\* and begin and its _end for upper_bound and end, whatever key and depth the
\* Leaf is called with
C15_LeafAccessors ==
  Answered =>
     LET f == trace[Len(trace)]
     IN heap[f.node].type = "Leaf" =>
           result = Iterator(IF f.fn \in {"lower_bound", "begin"}
                             THEN heap[f.node]._begin ELSE heap[f.node]._end)

C15_Witness ==
  /\ Answered /\ query.fn = "upper_bound"
  /\ query.node = <<5>> /\ heap[<<5>>].type = "Leaf"
  /\ query.key = <<9>> /\ query.depth = 7
  /\ Bytes = {2, 5}
  /\ result = Iterator(2 * run)

(************************ Node4 and Node16 arrays **************************)
\* C16: in a Node4 or Node16 with an unused slot and no child for 255, a
\* lower_bound or upper_bound with byte 255 calls this node's end() and
\* returns what it returns; no empty child slot is called through
C16_SentinelIsNoMatch ==
  (NodeQuery /\ heap[Root].type \in {"Node4", "Node16"}
             /\ Len(children) \in 1..(Capacity(heap[Root].type) - 1)
             /\ NoChildAt(INVALID_INDEX) /\ query.key[1] = INVALID_INDEX) =>
     /\ Len(trace) >= 2 /\ trace[2] = Frame(Root, "end", 0)
     /\ result.ub = "none"
     /\ Outcomes(Root, "end", <<>>, 0) = {result}

\* C17: lower_bound, upper_bound and end() of a Node16 with 1 to 16 children
\* read _partial_keys and _children within 0..15 only, and end() returns the
\* end() of the child with the greatest partial key
C17_Node16InBounds ==
  (Answered /\ query.node = Root /\ heap[Root].type = "Node16"
            /\ Len(children) \in 1..Node16Size /\ query.fn \in BoundFns \cup {"end"}) =>
     /\ Exec(heap, query.key, Root, query.fn, 0).last.cause # "index_out_of_range"
     /\ query.fn = "end" => result = Iterator(heap[<<GreatestByte>>]._end)

\* C18: begin() and end() of an internal node that holds a child return an
\* iterator, they do not throw the logic_error
C18_NoErrorWithChild ==
  (Answered /\ query.fn \in {"begin", "end"} /\ heap[query.node].type # "Leaf"
            /\ Under(query.node) # {}) =>
     result.kind = "iterator"

(***************************** termination *********************************)
\* the member calls of a chain that descend on an exact match
Descents(calls) ==
  {i \in 1..(Len(calls) - 1) :
     calls[i].fn \in BoundFns /\ calls[i + 1].fn = calls[i].fn
                               /\ calls[i + 1].depth = calls[i].depth + 1}

\* C19: a call of lower_bound(key, 0), upper_bound(key, 0), begin() or end() on
\* the root comes to its end: no scan of a Node48 or Node256 runs for ever, at
\* most KeyLen member calls descend on an exact match, and the chain of
\* member calls is no longer than the descents, one end() or begin() after
\* them, and the path down to a Leaf
C19_Termination ==
  (Answered /\ query.node = Root) =>
     /\ Exec(heap, query.key, Root, query.fn, 0).last.cause # "endless_loop"
     /\ result.ub # "endless_loop"
     /\ Cardinality(Descents(trace)) <= KeyLen
     /\ Len(trace) <= 2 * KeyLen + 2

C19_Witness ==
  /\ Answered /\ query.node = Root /\ query.fn = "end"
  /\ keys = {<<0, 0>>, <<0, 255>>}
  /\ heap[Root].type = "Node256" /\ heap[<<0>>].type = "Node48"
  /\ Len(trace) = 3
  /\ result.kind = "iterator"

(***************************** divergence **********************************)
\* C20: when the root has no child for the first byte of the key, the bytes
\* after it do not matter: lower_bound and upper_bound make the same member
\* calls and end in the same step for every key with that first byte
C20_DivergenceIndependence ==
  (BoundQuery /\ query.key[1] \notin NextBytes(keys, Root)) =>
     \A other \in TreeQueryKeys :
        other[1] = query.key[1] =>
           LET e == Exec(heap, other, Root, query.fn, 0)
           IN /\ e.calls = trace
              /\ e.last = Exec(heap, query.key, Root, query.fn, 0).last
              /\ result \in Results(e.last)
              /\ \A i \in 2..Len(trace) : trace[i].fn \notin BoundFns

C20_Witness ==
  /\ BoundQuery /\ query.fn = "upper_bound"
  /\ query.key = <<3, 255>>
  /\ keys = {<<0, 0>>, <<7, 7>>, <<255, 0>>}
  /\ heap[Root].type = "Node4" /\ heap[<<7>>].type = "Node4"
  /\ trace[2] = Frame(<<7>>, "begin", 0)
  /\ result = Iterator(run)

(***************************** node layout *********************************)
Built == pc # "unbuilt" /\ Root \in DOMAIN heap
ChildPairs == {children[i] : i \in 1..Len(children)}

\* C21: a Node4 or Node16 built from c pairs (1 <= c <= capacity) in any order
\* holds the partial keys ascending in slots 0..c-1, each with its child, and
\* 255 with an empty child in every slot from c on, before and after queries
C21_SortedArrayLayout ==
  (Built /\ heap[Root].type \in {"Node4", "Node16"} /\ Len(children) >= 1) =>
     LET n == heap[Root]
         c == Len(children)
     IN /\ \A i \in 0..(c - 2) : n._partial_keys[i] < n._partial_keys[i + 1]
        /\ \A i \in 0..(c - 1) : <<n._partial_keys[i], n._children[i]>> \in ChildPairs
        /\ \A i \in c..(Capacity(n.type) - 1) :
              n._partial_keys[i] = INVALID_INDEX /\ n._children[i] = NULL

C21_Witness ==
  /\ Built /\ pc = "answered"
  /\ heap[Root].type = "Node4"
  /\ children = ChildVector(<<>>, <<255, 0, 9>>)
  /\ heap[Root]._partial_keys = [i \in 0..3 |-> <<0, 9, 255, 255>>[i + 1]]
  /\ heap[Root]._children[2] = <<255>> /\ heap[Root]._children[3] = NULL

\* C22: a Node48 built from c pairs (1 <= c <= 48) has c entries of
\* _index_to_child other than 255, each in 0..47 and no two alike, children in
\* exactly the slots 0..c-1, and under _index_to_child[b] the child paired with b
C22_Node48Layout ==
  (Built /\ heap[Root].type = "Node48" /\ Len(children) >= 1) =>
     LET n == heap[Root]
         c == Len(children)
         set == {b \in Byte : n._index_to_child[b] # INVALID_INDEX}
     IN /\ \A b \in set : n._index_to_child[b] \in 0..(Node48Size - 1)
        /\ \A a, b \in set : n._index_to_child[a] = n._index_to_child[b] => a = b
        /\ Cardinality(set) = c
        /\ \A i \in 0..(Node48Size - 1) : n._children[i] # NULL <=> i < c
        /\ \A b \in set : <<b, n._children[n._index_to_child[b]]>> \in ChildPairs
        /\ set = Bytes

C22_Witness ==
  /\ Built /\ pc = "answered"
  /\ heap[Root].type = "Node48"
  /\ children = ChildVector(<<>>, <<9, 0, 255>>)
  /\ heap[Root]._index_to_child[9] = 0
  /\ heap[Root]._index_to_child[0] = 1
  /\ heap[Root]._index_to_child[255] = 2
  /\ heap[Root]._children[1] = <<0>>

\* C23: a constructor handed more pairs than its arrays have slots stores
\* nothing beyond the last slot, and its loop comes to an end
C23_ConstructorInBounds ==
  pc # "unbuilt" =>
     /\ Built
     /\ ConstructorLoop(heap[Root].type, children).how = "exit"
     /\ \A i \in 0..(Len(children) - 1) :
           heap[Root].type # "Node256" => i < Capacity(heap[Root].type)

(***************************** key index ***********************************)
\* C24: in lower_bound(key, 0) and upper_bound(key, 0) on the root every
\* internal node reads key[depth] with depth below the key length, a child is
\* called with the depth of its parent plus one, and a Leaf is called at
\* depth KeyLen
C24_KeyIndexInRange ==
  BoundQuery =>
     /\ Exec(heap, query.key, Root, query.fn, 0).last.cause # "key_out_of_range"
     /\ \A i \in 1..Len(trace) :
           trace[i].fn \in BoundFns =>
              /\ trace[i].depth = Len(trace[i].node)
              /\ IF heap[trace[i].node].type = "Leaf"
                 THEN trace[i].depth = KeyLen
                 ELSE trace[i].depth < Len(query.key)
              /\ i > 1 => /\ trace[i - 1].fn = trace[i].fn
                          /\ trace[i].depth = trace[i - 1].depth + 1

C24_Witness ==
  /\ BoundQuery /\ query.fn = "lower_bound"
  /\ query.key = <<255, 255>> /\ query.key \in keys
  /\ heap[Root].type = "Node256" /\ heap[<<255>>].type = "Node48"
  /\ trace = <<Frame(Root, "lower_bound", 0), Frame(<<255>>, "lower_bound", 1),
               Frame(<<255, 255>>, "lower_bound", 2)>>
  /\ result.kind = "iterator" /\ result.ub = "none"

(***************************** order of the bounds *************************)
\* how root->fn(key, 0) ends on the current tree
Bound(fn, key) == Exec(heap, key, Root, fn, 0).last

\* C25: lower_bound and upper_bound on the root return iterators that do not
\* decrease as the key grows, and lower_bound(key, 0) <= upper_bound(key, 0)
C25_MonotoneInKey ==
  BoundQuery =>
     /\ result.kind = "iterator" /\ result.ub = "none"
     /\ \A other \in TreeQueryKeys :
           LexLess(query.key, other) =>
              /\ Bound(query.fn, other).kind = "return"
              /\ result.pos <= Bound(query.fn, other).pos
     /\ Bound("lower_bound", query.key).kind = "return"
     /\ Bound("upper_bound", query.key).kind = "return"
     /\ Bound("lower_bound", query.key).pos <= Bound("upper_bound", query.key).pos

C25_FailingInput ==
  /\ BoundQuery /\ query.fn = "upper_bound" /\ query.key = <<0, 0>>
  /\ keys = {<<0, 0>>}
  /\ heap[Root].type = "Node4" /\ heap[<<0>>].type = "Node256"
  /\ result = Iterator(run)
  /\ Bound("upper_bound", <<0, 3>>) = Return(0)

====
